---------------------------- MODULE Spec2Model ----------------------------
(***************************************************************************)
(* Forex chart service: request validation, date-range validation,         *)
(* candidate-symbol fetch loop, post-processing of the fetched series,     *)
(* candle normalisation, optional rendering, and the HTTP error mapping.   *)
(*                                                                         *)
(* Text is modelled as a sequence of one-character strings, a datetime as  *)
(* a number of minutes (day * 1440 + hour * 60 + minute), a DataFrame as a *)
(* sequence of rows in index order.                                        *)
(***************************************************************************)
EXTENDS Integers, Sequences, FiniteSets, TLC

VARIABLES
    entry,          \* the operation this run calls: "http" or the name of a method
    pc,             \* position of the run
    settings,       \* Settings: max_days_lookback, max_data_points
    endpoint,       \* "charts" | "data-only"
    body,           \* the JSON body posted to the endpoint
    request,        \* the validated ChartRequest
    start_str,      \* _parse_date_range: parameter
    end_str,        \* _parse_date_range: parameter
    parsed,         \* _parse_date_range: what it returned or raised
    pairs,          \* _fetch_market_data: parameter
    start_dt,       \* start of the validated range
    end_dt,         \* end of the validated range
    interval,       \* _fetch_market_data: parameter
    candidates,     \* _fetch_market_data: the candidate list
    idx,            \* _fetch_market_data: number of candidates the loop has consumed
    source,         \* the answers the data source will give, call by call, when fixed
    calls,          \* every yf.download call made so far, in order
    answer,         \* what the latest yf.download call answered
    df,             \* _fetch_market_data: the adopted raw frame (None until adopted)
    used_symbol,    \* _fetch_market_data: the symbol that won
    fetched,        \* _fetch_market_data: what it returned or raised
    processed,      \* what _process_chart_data returned or raised
    chart_data,     \* generate_chart: result of _process_chart_data
    renderer,       \* what the chart library and the CSV write did ("" when not called)
    rendered,       \* generate_chart: result of _generate_interactive_chart
    outcome,        \* generate_chart: the ChartResponse returned or the exception raised
    files,          \* the CSV files written, each a <<name, frame>>
    http            \* the HTTP response sent to the caller

vars == <<source, entry, pc, settings, endpoint, body, request, start_str, end_str, parsed,
          pairs, start_dt, end_dt, interval, candidates, idx, calls, answer, df,
          used_symbol, fetched, processed, chart_data, renderer, rendered, outcome, files,
          http>>

-----------------------------------------------------------------------------
(* Bounds of the model *)

\* days offered beyond max_days_lookback in a date string
DaySlack == 1
\* largest number of rows in a frame the data source returns
MaxRows == 3
\* largest timestamp of a row
MaxTime == 3
\* largest configured max_data_points
MaxPoints == 2
\* rows of a frame passed to _process_chart_data directly
MaxCandleRows == 2
\* the greatest price in a frame passed to _process_chart_data directly
MaxPrice == 2
\* the longest time, in ticks of the clock, the rendering of a chart takes
MaxElapsed == 1

-----------------------------------------------------------------------------
(* Values *)

\* an optional value: None is the empty tuple, a present value v is <<v>>
None == <<>>
Some(v) == <<v>>

\* float('nan'), the missing-value marker of a cell: a value that is no price
NaN == 0 - 1

\* Settings.max_days_lookback
max_days_lookback == 30

\* Settings.yfinance_timeout
yfinance_timeout == 30

\* Settings.chart_server_port
chart_server_port == 5500

\* Settings, with max_data_points configured as n
Settings(n) ==
    [max_days_lookback |-> max_days_lookback, max_data_points |-> n,
     yfinance_timeout |-> yfinance_timeout, chart_server_port |-> chart_server_port]

MinutesPerDay == 24 * 60

\* ForexChartException.__init__: details or {}
EmptyDict == [k \in {} |-> k]

ForexChartException(type, error_code, message, details) ==
    [type |-> type, error_code |-> error_code, message |-> message,
     details |-> details]

DataNotFoundError(message, details) ==
    ForexChartException("DataNotFoundError", "DATA_NOT_FOUND", message, details)

InvalidDateRangeError(message) ==
    ForexChartException("InvalidDateRangeError", "INVALID_DATE_RANGE", message,
                        EmptyDict)

InvalidCurrencyPairError(message, details) ==
    ForexChartException("InvalidCurrencyPairError", "INVALID_CURRENCY_PAIR", message,
                        details)

ChartGenerationError(message, details) ==
    ForexChartException("ChartGenerationError", "CHART_GENERATION_ERROR", message, details)

\* an exception that is not a ForexChartException
PyException(type) ==
    [type |-> type, error_code |-> "", message |-> <<type>>, details |-> EmptyDict]

Returned(v) == [raised |-> FALSE, value |-> v]
Raised(e) == [raised |-> TRUE, exc |-> e]

-----------------------------------------------------------------------------
(* Datetime strings and datetime.strptime *)

Layouts == {"date I:M p", "date H:M", "date I:Mp"}
Hours == {0, 1, 12, 23}
Minutes == {0, 59}
Days == {0, 1} \cup (max_days_lookback .. max_days_lookback + DaySlack)

\* a text in one of the three layouts, with its digits; or any other text
DateText(layout, day, hh, mm, mer) ==
    [layout |-> layout, day |-> day, hh |-> hh, mm |-> mm, mer |-> mer]

GarbageText == DateText("other", 0, 0, 0, "")

DateStrs ==
    {DateText(l, d, h, m, p) : l \in {"date I:M p", "date I:Mp"}, d \in Days,
                               h \in Hours, m \in Minutes, p \in {"AM", "PM"}}
    \cup {DateText("date H:M", d, h, m, "") : d \in Days, h \in Hours, m \in Minutes}
    \cup {GarbageText}

datetime(day, hour, minute) == day * MinutesPerDay + hour * 60 + minute

\* the three formats, in the order tried
formats == <<"%Y-%m-%d %I:%M %p", "%Y-%m-%d %H:%M", "%Y-%m-%d %I:%M%p">>

\* the layout a format accepts
FormatLayout(fmt) ==
    CASE fmt = "%Y-%m-%d %I:%M %p" -> "date I:M p"
      [] fmt = "%Y-%m-%d %H:%M" -> "date H:M"
      [] fmt = "%Y-%m-%d %I:%M%p" -> "date I:Mp"

\* %I with %p: 12 AM is hour 0, 12 PM is hour 12, other PM hours add 12
Hour12To24(hh, mer) ==
    IF mer = "AM" THEN (IF hh = 12 THEN 0 ELSE hh)
                  ELSE (IF hh = 12 THEN 12 ELSE hh + 12)

\* datetime.strptime(date_str, fmt): the datetime, or ValueError
strptime(date_str, fmt) ==
    IF date_str.layout # FormatLayout(fmt) \/ date_str.mm \notin 0..59
    THEN Raised(PyException("ValueError"))
    ELSE IF fmt = "%Y-%m-%d %H:%M"
         THEN IF date_str.hh \in 0..23
              THEN Returned(datetime(date_str.day, date_str.hh, date_str.mm))
              ELSE Raised(PyException("ValueError"))
         ELSE IF date_str.hh \in 1..12
              THEN Returned(datetime(date_str.day,
                                     Hour12To24(date_str.hh, date_str.mer),
                                     date_str.mm))
              ELSE Raised(PyException("ValueError"))

RECURSIVE TryFormats(_, _)
\* the loop of parse_datetime from format i on
TryFormats(date_str, i) ==
    IF i > Len(formats)
    THEN Raised(InvalidDateRangeError(<<"Unable to parse datetime">>))
    ELSE LET r == strptime(date_str, formats[i])
         IN  IF r.raised THEN TryFormats(date_str, i + 1) ELSE r

parse_datetime(date_str) == TryFormats(date_str, 1)

\* timedelta.days of a difference of two datetimes
TimedeltaDays(minutes) == minutes \div MinutesPerDay

\* the comparison that rejects an unordered pair
StartNotBeforeEndOffByOne(s, e) == s > e

StartNotBeforeEnd(s, e) == s >= e

\* the comparison that rejects a span that is too large
RangeTooLarge(s, e, cfg) == TimedeltaDays(e - s) > cfg.max_days_lookback

\* ChartService._parse_date_range
parse_date_range(s, e, cfg) ==
    LET ps == parse_datetime(s)
        pe == parse_datetime(e)
    IN  IF ps.raised THEN ps
        ELSE IF pe.raised THEN pe
        ELSE IF StartNotBeforeEnd(ps.value, pe.value)
             THEN Raised(InvalidDateRangeError(<<"Start date must be before end date">>))
        ELSE IF RangeTooLarge(ps.value, pe.value, cfg)
             THEN Raised(InvalidDateRangeError(<<"Date range too large">>))
        ELSE Returned(<<ps.value, pe.value>>)

-----------------------------------------------------------------------------
(* Text: str.upper, str.replace, str.split *)

LowerCase == <<"a", "b", "c", "d", "e", "f", "g", "h", "i", "j", "k", "l", "m",
               "n", "o", "p", "q", "r", "s", "t", "u", "v", "w", "x", "y", "z">>
UpperCase == <<"A", "B", "C", "D", "E", "F", "G", "H", "I", "J", "K", "L", "M",
               "N", "O", "P", "Q", "R", "S", "T", "U", "V", "W", "X", "Y", "Z">>

UpperChar(c) ==
    IF \E i \in 1..Len(LowerCase) : LowerCase[i] = c
    THEN UpperCase[CHOOSE i \in 1..Len(LowerCase) : LowerCase[i] = c]
    ELSE c

\* str.upper()
Upper(s) == [i \in 1..Len(s) |-> UpperChar(s[i])]

\* str.replace(c, '') for a one-character c
Remove(s, c) == LET keep(x) == x # c IN SelectSeq(s, keep)

\* str.replace(c, d) for one-character c and d
Replace(s, c, d) == [i \in 1..Len(s) |-> IF s[i] = c THEN d ELSE s[i]]

\* c in s
Contains(s, c) == \E i \in 1..Len(s) : s[i] = c

RECURSIVE Split(_, _)
\* str.split(c): the pieces between the occurrences of c
Split(s, c) ==
    IF ~Contains(s, c) THEN <<s>>
    ELSE LET i == CHOOSE k \in 1..Len(s) :
                      s[k] = c /\ \A j \in 1..(k - 1) : s[j] # c
         IN  <<SubSeq(s, 1, i - 1)>> \o Split(SubSeq(s, i + 1, Len(s)), c)

\* the provider's currency-pair suffix
EqX == <<"=", "X">>

-----------------------------------------------------------------------------
(* _fetch_market_data: candidates, the usable test, post-processing *)

\* the candidate list with the reversed form tried first
CandidateListReversedFirst(pair_clean, base, quote) ==
    << quote \o base \o EqX,
       Remove(pair_clean, "/") \o EqX,
       base \o quote \o EqX,
       quote \o EqX >>

\* lines 167-172
CandidateList(pair_clean, base, quote) ==
    << Remove(pair_clean, "/") \o EqX,
       base \o quote \o EqX,
       quote \o base \o EqX,
       quote \o EqX >>

\* lines 164-172: the candidates, or the ValueError of unpacking the split
BuildCandidates(p) ==
    LET pair_clean == Remove(Upper(p), " ")
        parts == Split(pair_clean, "/")
    IN  IF Len(parts) # 2 THEN Raised(PyException("ValueError"))
        ELSE Returned(CandidateList(pair_clean, parts[1], parts[2]))

\* what one yf.download call can answer
AnswerKinds == {"raises", "None", "not a DataFrame", "DataFrame"}

Frame(columns, rows) == [columns |-> columns, rows |-> rows]
EmptyFrame == Frame("flat", <<>>)

Answer(kind, frame) == [kind |-> kind, frame |-> frame]

\* the answers of a data source that can return the frames of F
Answers(F) ==
    {Answer(k, EmptyFrame) : k \in AnswerKinds \ {"DataFrame"}}
    \cup {Answer("DataFrame", f) : f \in F \cup {EmptyFrame}}

\* a usable test that also adopts an empty frame
UsableAnyFrame(ans) == ans.kind = "DataFrame"

\* line 190: df_try is not None and isinstance(df_try, pd.DataFrame) and not df_try.empty
Usable(ans) == ans.kind = "DataFrame" /\ Len(ans.frame.rows) > 0

\* a loop without the break of line 194
LoopEndsNoBreak(ans, i, n) == i = n

\* lines 177, 190-194: the loop ends at the break or after the last candidate
LoopEnds(ans, i, n) == Usable(ans) \/ i = n

\* lines 190-192: a usable answer becomes df
Adopt(ans, current) == IF Usable(ans) THEN Some(ans.frame) ELSE current

RECURSIVE Pick(_, _, _)
\* the rows of a sequence at the positions of S from position i on, in order
Pick(rows, S, i) ==
    IF i > Len(rows) THEN <<>>
    ELSE (IF i \in S THEN <<rows[i]>> ELSE <<>>) \o Pick(rows, S, i + 1)

\* df.index.duplicated(keep='last'): a later row has the same timestamp
DuplicatedKeepLast(rows) ==
    {i \in 1..Len(rows) : \E j \in (i + 1)..Len(rows) : rows[j].time = rows[i].time}

\* df.index.duplicated(keep='first'): an earlier row has the same timestamp
Duplicated(rows) ==
    {i \in 1..Len(rows) : \E j \in 1..(i - 1) : rows[j].time = rows[i].time}

\* line 213: df[~df.index.duplicated(keep='first')]
DropDuplicates(f) ==
    Frame(f.columns, Pick(f.rows, (1..Len(f.rows)) \ Duplicated(f.rows), 1))

\* df.head(n): the first n rows
head(f, n) ==
    IF Len(f.rows) <= n THEN f
    ELSE Frame(f.columns, SubSeq(f.rows, 1, n))

\* df.tail(n)
tail(f, n) ==
    IF Len(f.rows) <= n THEN f
    ELSE Frame(f.columns, SubSeq(f.rows, Len(f.rows) - n + 1, Len(f.rows)))

\* lines 216-218
Truncate(f, cfg) ==
    IF Len(f.rows) > cfg.max_data_points THEN tail(f, cfg.max_data_points) ELSE f

\* datetime.isoformat(): the date and the time of day of a datetime
isoformat(dt) ==
    [date |-> dt \div MinutesPerDay,
     hour |-> (dt % MinutesPerDay) \div 60,
     minute |-> dt % 60]

\* the end of _fetch_market_data with lines 216-218 ahead of lines 212-213: the
\* series is cut first and deduplicated afterwards
FinishFetchTruncateFirst(adopted, p, cands, s, e, ivl, cfg) ==
    IF adopted = None \/ Len(adopted[1].rows) = 0
    THEN Raised(DataNotFoundError(
             <<"No data found for ">> \o p,
             [pairs |-> p, candidates_tried |-> cands,
              start_date |-> isoformat(s), end_date |-> isoformat(e),
              interval |-> ivl]))
    ELSE Returned(DropDuplicates(Truncate(adopted[1], cfg)))

\* lines 200-220: what _fetch_market_data does once the loop has ended
FinishFetch(adopted, p, cands, s, e, ivl, cfg) ==
    IF adopted = None \/ Len(adopted[1].rows) = 0
    THEN Raised(DataNotFoundError(
             <<"No data found for ">> \o p,
             [pairs |-> p, candidates_tried |-> cands,
              start_date |-> isoformat(s), end_date |-> isoformat(e),
              interval |-> ivl]))
    ELSE Returned(Truncate(DropDuplicates(adopted[1]), cfg))

-----------------------------------------------------------------------------
(* _process_chart_data *)

\* safe_float without the .iloc branch: a Series cell is taken as missing
safe_floatScalarOnly(columns, value) ==
    IF columns = "multi" THEN None
    ELSE IF value = NaN THEN None
    ELSE Some(value)

\* safe_float: a cell of a frame with MultiIndex columns is a Series and is
\* read through .iloc[0] without the NaN test; a scalar NaN becomes None
safe_float(columns, value) ==
    IF columns = "multi" THEN Some(value)
    ELSE IF value = NaN THEN None
    ELSE Some(value)

\* lines 243-255: the candle of one row, or no candle
CandleOf(columns, row) ==
    LET open_val == safe_float(columns, row.Open)
        high_val == safe_float(columns, row.High)
        low_val == safe_float(columns, row.Low)
        close_val == safe_float(columns, row.Close)
    IN  IF None \notin {open_val, high_val, low_val, close_val}
        THEN <<[time |-> row.time, open |-> open_val[1], high |-> high_val[1],
                low |-> low_val[1], close |-> close_val[1]]>>
        ELSE <<>>

RECURSIVE CandlesNewestFirst(_, _, _)
\* the loop of lines 233-255 with each candle put before the earlier ones
CandlesNewestFirst(columns, rows, i) ==
    IF i > Len(rows) THEN <<>>
    ELSE CandlesNewestFirst(columns, rows, i + 1) \o CandleOf(columns, rows[i])

RECURSIVE Candles(_, _, _)
\* the loop of lines 233-255 from row i on
Candles(columns, rows, i) ==
    IF i > Len(rows) THEN <<>>
    ELSE CandleOf(columns, rows[i]) \o Candles(columns, rows, i + 1)

RECURSIVE AllPrices(_, _)
\* lines 261-263
AllPrices(candles, i) ==
    IF i > Len(candles) THEN <<>>
    ELSE <<candles[i].open, candles[i].high, candles[i].low, candles[i].close>>
         \o AllPrices(candles, i + 1)

\* a < b on floats: every comparison with NaN is false
FloatLess(a, b) == a # NaN /\ b # NaN /\ a < b

RECURSIVE PyMin(_, _, _)
\* min(xs): the running minimum, replaced when a later item is less
PyMin(xs, i, best) ==
    IF i > Len(xs) THEN best
    ELSE PyMin(xs, i + 1, IF FloatLess(xs[i], best) THEN xs[i] ELSE best)

RECURSIVE PyMax(_, _, _)
\* max(xs): the running maximum, replaced when a later item is greater
PyMax(xs, i, best) ==
    IF i > Len(xs) THEN best
    ELSE PyMax(xs, i + 1, IF FloatLess(best, xs[i]) THEN xs[i] ELSE best)

\* df.index.min()
IndexMin(rows) == CHOOSE t \in {rows[i].time : i \in 1..Len(rows)} :
                      \A i \in 1..Len(rows) : t <= rows[i].time

\* df.index.max()
IndexMax(rows) == CHOOSE t \in {rows[i].time : i \in 1..Len(rows)} :
                      \A i \in 1..Len(rows) : t >= rows[i].time

\* _process_chart_data with the date range of lines 272-273 taken from the
\* candles instead of the index of the frame
process_chart_dataCandleRange(f, p, ivl) ==
    LET candles == Candles(f.columns, f.rows, 1)
        all_prices == AllPrices(candles, 1)
    IN  IF Len(candles) = 0
        THEN Raised(DataNotFoundError(
                 <<"No valid data points found after processing">>, EmptyDict))
        ELSE Returned([pairs |-> p,
                       start_date |-> IndexMin(candles),
                       end_date |-> IndexMax(candles),
                       interval |-> ivl,
                       data_points |-> Len(candles),
                       price_range |-> [min |-> PyMin(all_prices, 2, all_prices[1]),
                                        max |-> PyMax(all_prices, 2, all_prices[1])],
                       candles |-> candles])

\* ChartService._process_chart_data
process_chart_data(f, p, ivl) ==
    LET candles == Candles(f.columns, f.rows, 1)
        all_prices == AllPrices(candles, 1)
    IN  IF Len(candles) = 0
        THEN Raised(DataNotFoundError(
                 <<"No valid data points found after processing">>, EmptyDict))
        ELSE Returned([pairs |-> p,
                       start_date |-> IndexMin(f.rows),
                       end_date |-> IndexMax(f.rows),
                       interval |-> ivl,
                       data_points |-> Len(candles),
                       price_range |-> [min |-> PyMin(all_prices, 2, all_prices[1]),
                                        max |-> PyMax(all_prices, 2, all_prices[1])],
                       candles |-> candles])

-----------------------------------------------------------------------------
(* _generate_interactive_chart and the result of generate_chart *)

\* what the chart library and the file system can do to one rendering
RenderKinds == {"ok", "Chart raises", "to_csv raises"}

\* datetime.strftime("%Y%m%d_%H%M")
strftime(dt) == <<dt \div MinutesPerDay, (dt % MinutesPerDay) \div 60, dt % 60>>

\* line 296
CsvFilename(p, s, e) ==
    [stem |-> Replace(p, "/", "_"), start |-> strftime(s), end |-> strftime(e)]

\* a renderer whose failure escapes
InteractiveChartUnguarded(kind, p, s, e, cfg) ==
    IF kind = "ok"
    THEN Returned(<<Some([host |-> "localhost", port |-> cfg.chart_server_port]),
                    Some(CsvFilename(p, s, e))>>)
    ELSE Raised(PyException(kind))

\* ChartService._generate_interactive_chart: (chart_url, csv_filename); every
\* exception inside is caught and becomes (None, None)
InteractiveChart(kind, p, s, e, cfg) ==
    IF kind = "ok"
    THEN Returned(<<Some([host |-> "localhost", port |-> cfg.chart_server_port]),
                    Some(CsvFilename(p, s, e))>>)
    ELSE Returned(<<None, None>>)

\* line 297: the file df.to_csv leaves behind when it is reached and succeeds
CsvWritten(kind, f, p, s, e) ==
    IF kind = "ok" THEN {<<CsvFilename(p, s, e), f>>} ELSE {}

\* the files of the working directory after the files of written are written:
\* a file of the same name is replaced
WriteFiles(fs, written) ==
    {f \in fs : \A w \in written : w[1] # f[1]} \cup written

\* lines 87-112; gen is chart_gen_time
ChartResponse(req, f, cd, url, csv, s, e, gen) ==
    [success |-> TRUE,
     message |-> <<"Chart created successfully for ">> \o req.pairs,
     chart_data |-> cd,
     chart_url |-> url,
     csv_filename |-> csv,
     metadata |-> [metrics |-> [chart_generation_time |-> gen,
                                data_points_processed |-> Len(f.rows)],
                   settings |-> [interval |-> req.interval,
                                 data_points |-> Len(f.rows),
                                 date_range |-> <<s, e>>]]]

\* an except clause that lets the service's own exceptions through
WrapUnexpectedOnly(req, e) ==
    IF e.error_code # "" THEN e
    ELSE ChartGenerationError(
             <<"Failed to generate chart: ">> \o e.message,
             [pairs |-> req.pairs, start_date |-> req.start_date_time,
              end_date |-> req.end_date_time, interval |-> req.interval])

\* lines 114-124: except Exception as e: raise ChartGenerationError(...)
Wrap(req, e) ==
    ChartGenerationError(
        <<"Failed to generate chart: ">> \o e.message,
        [pairs |-> req.pairs, start_date |-> req.start_date_time,
         end_date |-> req.end_date_time, interval |-> req.interval])

-----------------------------------------------------------------------------
(* ChartRequest and the endpoints *)

allowed_intervals == {"1m", "5m", "15m", "30m", "1h", "1d"}

\* ChartRequest.validate_pairs
validate_pairs(v) ==
    IF ~Contains(v, "/") THEN Raised(PyException("ValueError"))
    ELSE LET parts == Split(v, "/")
         IN  IF Len(parts) # 2 THEN Raised(PyException("ValueError"))
             ELSE IF Len(parts[1]) # 3 \/ Len(parts[2]) # 3
                  THEN Raised(PyException("ValueError"))
             ELSE Returned(Upper(v))

\* a validator that returns every interval as it came
validate_intervalAny(v) == Returned(v)

\* ChartRequest.validate_interval
validate_interval(v) ==
    IF v \notin allowed_intervals THEN Raised(PyException("ValueError"))
    ELSE Returned(v)

\* ChartRequest.validate_datetime_format
validate_datetime_format(v) ==
    IF \E i \in 1..Len(formats) : ~strptime(v, formats[i]).raised
    THEN Returned(v)
    ELSE Raised(PyException("ValueError"))

\* ChartRequest(**body): the validated model, or the validation error
ChartRequest(b) ==
    LET p == validate_pairs(b.pairs)
        s == validate_datetime_format(b.start_date_time)
        e == validate_datetime_format(b.end_date_time)
        i == validate_interval(b.interval)
    IN  IF p.raised \/ s.raised \/ e.raised \/ i.raised
        THEN Raised(PyException("ValidationError"))
        ELSE Returned([pairs |-> p.value, start_date_time |-> s.value,
                       end_date_time |-> e.value, interval |-> i.value])

\* both endpoints passing generate_interactive=True
GenerateInteractiveAlways(ep) == ep \in {"charts", "data-only"}

\* create_chart passes generate_interactive=True, get_chart_data False
GenerateInteractive(ep) == ep = "charts"

HTTPException(status_code, error_code, message, details) ==
    [status_code |-> status_code,
     detail |-> [error_code |-> error_code, message |-> message, details |-> details]]

ClientErrors == {"DataNotFoundError", "InvalidDateRangeError", "InvalidCurrencyPairError"}

\* except clauses that answer every exception of the service with 400
HandleExceptionAll400(ep, e) ==
    IF e.error_code # ""
    THEN HTTPException(400, e.error_code, e.message, e.details)
    ELSE HTTPException(500, "INTERNAL_ERROR", <<"An unexpected error occurred">>,
                       [error |-> e.message])

\* the except clauses of create_chart and get_chart_data
HandleException(ep, e) ==
    IF e.type \in ClientErrors
    THEN HTTPException(
             IF e.type \in {"InvalidDateRangeError", "InvalidCurrencyPairError"}
             THEN 400 ELSE 404,
             e.error_code, e.message, e.details)
    ELSE IF ep = "charts" /\ e.type = "ChartGenerationError"
    THEN HTTPException(500, e.error_code, e.message, e.details)
    ELSE HTTPException(500, "INTERNAL_ERROR", <<"An unexpected error occurred">>,
                       [error |-> e.message])

\* the response of an endpoint to what generate_chart returned or raised
EndpointResponse(ep, out) ==
    IF out.raised THEN HandleException(ep, out.exc)
    ELSE [status_code |-> 200, detail |-> out.value]

\* FastAPI's answer to a body that fails ChartRequest
UnprocessableEntity ==
    [status_code |-> 422, detail |-> [error_code |-> "", message |-> <<>>,
                                      details |-> EmptyDict]]

-----------------------------------------------------------------------------
(* Inputs *)

Row(t, o, h, l, c) == [time |-> t, Open |-> o, High |-> h, Low |-> l, Close |-> c]

RECURSIVE SeqsUpTo(_, _)
\* the sequences over S of length 1..n
SeqsUpTo(S, n) ==
    IF n = 0 THEN {}
    ELSE LET shorter == SeqsUpTo(S, n - 1)
         IN  {<<x>> : x \in S} \cup shorter \cup {Append(q, x) : q \in shorter, x \in S}

\* rows of a direct fetch: any timestamp, one of two prices in every column
FetchRows == {Row(t, v, v, v, v) : t \in 1..MaxTime, v \in {1, 2}}

\* the non-empty frames a direct fetch can be answered with
FetchFrames == {Frame("flat", rows) : rows \in SeqsUpTo(FetchRows, MaxRows)}

\* the non-empty frames an HTTP request can be answered with
SampleFrames ==
    { Frame("flat", <<Row(1, 1, 2, 1, 2), Row(2, 2, 3, 1, 2)>>),
      Frame("flat", <<Row(1, 1, 2, 1, 2), Row(1, 3, 3, 3, 3), Row(2, 2, 3, 1, 2)>>),
      Frame("flat", <<Row(1, 1, 1, 1, 1), Row(2, 2, 2, 2, 2), Row(3, 3, 3, 3, 3)>>),
      Frame("flat", <<Row(1, 1, NaN, 1, 1), Row(2, 2, 3, 1, 2)>>),
      Frame("flat", <<Row(1, NaN, 2, 1, 2), Row(2, 2, 3, 1, NaN)>>),
      Frame("multi", <<Row(1, 1, 2, NaN, 2), Row(2, 2, 3, 1, 2)>>),
      Frame("multi", <<Row(1, 1, 2, 1, 2), Row(2, 2, 3, 1, 2)>>),
      Frame("multi", <<Row(1, NaN, 2, 1, 2)>>),
      Frame("flat", <<Row(2, 2, 3, 1, 2), Row(1, 1, 2, 1, 2)>>) }

EUR_USD == <<"E", "U", "R", "/", "U", "S", "D">>
eur_usd == <<"e", "u", "r", "/", "u", "s", "d">>
usd_jpy == <<"u", "s", "d", " ", "/", "J", "P", "Y">>
EU_USD == <<"E", "U", " ", "/", "U", "S", "D">>
EURUSD == <<"E", "U", "R", "U", "S", "D">>

\* cells of a row passed to _process_chart_data directly: one price in every
\* column but one, which holds another price or NaN
ProcessCells ==
    {[[Open |-> v, High |-> v, Low |-> v, Close |-> v] EXCEPT ![c] = x] :
         c \in {"Open", "High", "Low", "Close"}, v \in 1..MaxPrice,
         x \in (1..MaxPrice) \cup {NaN}}

\* rows of consecutive timestamps holding the cells q
Stamped(q) ==
    [i \in 1..Len(q) |-> Row(i, q[i].Open, q[i].High, q[i].Low, q[i].Close)]

\* the frames _process_chart_data is called with directly, of scalar cells
\* and of Series cells
ProcessFrames ==
    {Frame(c, Stamped(q)) :
         c \in {"flat", "multi"}, q \in SeqsUpTo(ProcessCells, MaxCandleRows) \cup {<<>>}}

\* the frames of a data source whose answers are fixed call by call
SourceFrames ==
    { Frame("flat", <<Row(1, 1, 1, 1, 1), Row(1, 2, 2, 2, 2), Row(2, 2, 2, 2, 2)>>),
      Frame("flat", <<Row(3, 2, 2, 2, 2)>>) }

\* the behaviours of a data source over the four calls of one fetch: its
\* answer to the first call, to the second, and so on
Sources == [1..Len(CandidateList(<<>>, <<>>, <<>>)) -> Answers(SourceFrames)]

\* pair strings posted to the endpoints
BodyPairs == {EUR_USD, eur_usd, EU_USD, EURUSD}

\* pair strings passed to _fetch_market_data directly
FetchPairs == {EUR_USD, usd_jpy, EURUSD}

\* datetime strings posted to the endpoints
BodyDates ==
    { DateText("date I:M p", 0, 1, 0, "AM"),
      DateText("date H:M", 0, 1, 0, ""),
      DateText("date H:M", 0, 23, 59, ""),
      DateText("date I:M p", 1, 1, 0, "AM"),
      DateText("date I:Mp", max_days_lookback + 1, 12, 0, "PM"),
      GarbageText }

BodyIntervals == {"5m", "7m"}

Bodies ==
    [pairs : BodyPairs, start_date_time : BodyDates, end_date_time : BodyDates,
     interval : BodyIntervals]

Endpoints == {"charts", "data-only"}

\* the body the API tests post
sample_chart_request ==
    [pairs |-> EUR_USD,
     start_date_time |-> DateText("date I:M p", 0, 10, 0, "AM"),
     end_date_time |-> DateText("date I:M p", 1, 10, 0, "AM"),
     interval |-> "5m"]

ErrorMessages == {<<"No data found for EUR/USD">>, <<"Internal server error">>}

ErrorDetails ==
    {EmptyDict, [pairs |-> EUR_USD], [pairs |-> EUR_USD, interval |-> "5m"]}

\* the exceptions a test makes generate_chart raise in place of its own code
SideEffects ==
    {DataNotFoundError(m, d) : m \in ErrorMessages, d \in ErrorDetails}
    \cup {ForexChartException("InvalidDateRangeError", "INVALID_DATE_RANGE", m, d) :
              m \in ErrorMessages, d \in ErrorDetails}
    \cup {InvalidCurrencyPairError(m, d) : m \in ErrorMessages, d \in ErrorDetails}
    \cup {ChartGenerationError(m, d) : m \in ErrorMessages, d \in ErrorDetails}
    \cup {ForexChartException("ForexChartException", "GENERAL_ERROR", m, d) :
              m \in ErrorMessages, d \in ErrorDetails}
    \cup {PyException("Exception"), PyException("ValueError")}

-----------------------------------------------------------------------------
(* Initial states: one per kind of run *)

\* an HTTP client posts a body to one of the two endpoints
Init ==
    /\ entry = "http" /\ pc = "receive"
    /\ settings \in {Settings(n) : n \in 1..MaxPoints}
    /\ endpoint \in Endpoints
    /\ body \in Bodies
    /\ request = None
    /\ start_str = None /\ end_str = None /\ parsed = None
    /\ pairs = None /\ start_dt = None /\ end_dt = None /\ interval = None
    /\ candidates = None /\ idx = 0 /\ calls = <<>> /\ answer = None
    /\ source = None
    /\ df = None /\ used_symbol = None /\ fetched = None
    /\ processed = None /\ chart_data = None
    /\ renderer = "" /\ rendered = None /\ outcome = None
    /\ files = {} /\ http = None

\* a caller (a test) calls _parse_date_range directly
InitDates ==
    /\ entry = "_parse_date_range" /\ pc = "call"
    /\ settings = Settings(MaxPoints)
    /\ endpoint = "" /\ body = None /\ request = None
    /\ start_str \in DateStrs /\ end_str \in DateStrs /\ parsed = None
    /\ pairs = None /\ start_dt = None /\ end_dt = None /\ interval = None
    /\ candidates = None /\ idx = 0 /\ calls = <<>> /\ answer = None
    /\ source = None
    /\ df = None /\ used_symbol = None /\ fetched = None
    /\ processed = None /\ chart_data = None
    /\ renderer = "" /\ rendered = None /\ outcome = None
    /\ files = {} /\ http = None

\* a caller (a test) calls _fetch_market_data directly
InitFetch ==
    /\ entry = "_fetch_market_data" /\ pc = "fetch"
    /\ settings \in {Settings(n) : n \in 1..MaxPoints}
    /\ endpoint = "" /\ body = None /\ request = None
    /\ start_str = None /\ end_str = None /\ parsed = None
    /\ pairs \in FetchPairs
    /\ start_dt = datetime(0, 10, 0) /\ end_dt = datetime(1, 10, 0)
    /\ interval \in {"5m", "1d"}
    /\ candidates = None /\ idx = 0 /\ calls = <<>> /\ answer = None
    /\ source = None
    /\ df = None /\ used_symbol = None /\ fetched = None
    /\ processed = None /\ chart_data = None
    /\ renderer = "" /\ rendered = None /\ outcome = None
    /\ files = {} /\ http = None

\* a caller calls _fetch_market_data with a data source whose answers are
\* fixed call by call
InitSource ==
    /\ entry = "_fetch_market_data" /\ pc = "fetch"
    /\ settings \in {Settings(n) : n \in 1..MaxPoints}
    /\ endpoint = "" /\ body = None /\ request = None
    /\ start_str = None /\ end_str = None /\ parsed = None
    /\ pairs = EUR_USD
    /\ start_dt = datetime(0, 10, 0) /\ end_dt = datetime(1, 10, 0)
    /\ interval = "5m"
    /\ candidates = None /\ idx = 0 /\ calls = <<>> /\ answer = None
    /\ source \in Sources
    /\ df = None /\ used_symbol = None /\ fetched = None
    /\ processed = None /\ chart_data = None
    /\ renderer = "" /\ rendered = None /\ outcome = None
    /\ files = {} /\ http = None

\* a caller (a test) calls _process_chart_data directly
InitProcess ==
    /\ entry = "_process_chart_data" /\ pc = "call"
    /\ settings = Settings(MaxPoints)
    /\ endpoint = "" /\ body = None /\ request = None
    /\ start_str = None /\ end_str = None /\ parsed = None
    /\ pairs = EUR_USD
    /\ start_dt = None /\ end_dt = None
    /\ interval \in {"5m", "1d"}
    /\ candidates = None /\ idx = 0 /\ calls = <<>> /\ answer = None
    /\ source = None
    /\ df \in {Some(f) : f \in ProcessFrames}
    /\ used_symbol = None /\ fetched = None
    /\ processed = None /\ chart_data = None
    /\ renderer = "" /\ rendered = None /\ outcome = None
    /\ files = {} /\ http = None

\* a test posts its sample body to an endpoint whose service is patched to
\* raise
InitEndpoint ==
    /\ entry = "endpoint" /\ pc = "generate_chart"
    /\ settings = Settings(MaxPoints)
    /\ endpoint \in Endpoints
    /\ body = sample_chart_request
    /\ request = ChartRequest(sample_chart_request).value
    /\ start_str = None /\ end_str = None /\ parsed = None
    /\ pairs = None /\ start_dt = None /\ end_dt = None /\ interval = None
    /\ candidates = None /\ idx = 0 /\ calls = <<>> /\ answer = None
    /\ source = None
    /\ df = None /\ used_symbol = None /\ fetched = None
    /\ processed = None /\ chart_data = None
    /\ renderer = "" /\ rendered = None /\ outcome = None
    /\ files = {} /\ http = None

\* a client posts the sample body to one of the two endpoints
InitSample ==
    /\ entry = "http" /\ pc = "receive"
    /\ settings \in {Settings(n) : n \in 1..MaxPoints}
    /\ endpoint \in Endpoints
    /\ body = sample_chart_request
    /\ request = None
    /\ start_str = None /\ end_str = None /\ parsed = None
    /\ pairs = None /\ start_dt = None /\ end_dt = None /\ interval = None
    /\ candidates = None /\ idx = 0 /\ calls = <<>> /\ answer = None
    /\ source = None
    /\ df = None /\ used_symbol = None /\ fetched = None
    /\ processed = None /\ chart_data = None
    /\ renderer = "" /\ rendered = None /\ outcome = None
    /\ files = {} /\ http = None

-----------------------------------------------------------------------------
(* Actions *)

\* FastAPI builds the ChartRequest from the body; a body that fails is
\* answered 422 and the endpoint function is not entered
ValidateRequest ==
    /\ pc = "receive"
    /\ LET r == ChartRequest(body)
       IN  IF r.raised
           THEN /\ http' = UnprocessableEntity
                /\ pc' = "done"
                /\ UNCHANGED request
           ELSE /\ request' = r.value
                /\ pc' = "generate_chart"
                /\ UNCHANGED http
    /\ UNCHANGED <<source, entry, settings, endpoint, body, start_str, end_str, parsed, pairs,
                   start_dt, end_dt, interval, candidates, idx, calls, answer, df,
                   used_symbol, fetched, processed, chart_data, renderer, rendered, outcome,
                   files>>

\* a direct call of _parse_date_range
CallParseDateRange ==
    /\ pc = "call"
    /\ entry = "_parse_date_range"
    /\ parsed' = parse_date_range(start_str, end_str, settings)
    /\ pc' = "done"
    /\ UNCHANGED <<source, entry, settings, endpoint, body, request, start_str, end_str, pairs,
                   start_dt, end_dt, interval, candidates, idx, calls, answer, df,
                   used_symbol, fetched, processed, chart_data, renderer, rendered, outcome,
                   files, http>>

\* a direct call of _process_chart_data
CallProcessChartData ==
    /\ pc = "call"
    /\ entry = "_process_chart_data"
    /\ processed' = process_chart_data(df[1], pairs, interval)
    /\ pc' = "done"
    /\ UNCHANGED <<source, entry, settings, endpoint, body, request, start_str, end_str,
                   parsed,
                   pairs, start_dt, end_dt, interval, candidates, idx, calls, answer, df,
                   used_symbol, fetched, chart_data, renderer, rendered, outcome, files,
                   http>>

\* generate_chart, lines 47-56: the date range of the request is parsed; an
\* exception is re-raised by the except clause of lines 114-124
GenerateChartParse ==
    /\ pc = "generate_chart"
    /\ start_str' = request.start_date_time
    /\ end_str' = request.end_date_time
    /\ LET r == parse_date_range(request.start_date_time, request.end_date_time,
                                 settings)
       IN  /\ parsed' = r
           /\ IF r.raised
              THEN /\ outcome' = Raised(Wrap(request, r.exc))
                   /\ pc' = "exit"
                   /\ UNCHANGED <<pairs, start_dt, end_dt, interval>>
              ELSE /\ start_dt' = r.value[1]
                   /\ end_dt' = r.value[2]
                   /\ pairs' = request.pairs
                   /\ interval' = request.interval
                   /\ pc' = "fetch"
                   /\ UNCHANGED outcome
    /\ UNCHANGED <<source, entry, settings, endpoint, body, request, candidates, idx, calls,
                   answer, df, used_symbol, fetched, processed, chart_data, renderer, rendered,
                   files, http>>

\* _fetch_market_data ends with r: a direct call ends there; inside
\* generate_chart an exception goes to the except clause of lines 114-124
FetchExit(r) ==
    /\ fetched' = r
    /\ IF entry = "_fetch_market_data"
       THEN pc' = "done" /\ UNCHANGED outcome
       ELSE IF r.raised
            THEN pc' = "exit" /\ outcome' = Raised(Wrap(request, r.exc))
            ELSE pc' = "process" /\ UNCHANGED outcome

\* _fetch_market_data, lines 164-175
FetchEnter ==
    /\ pc = "fetch"
    /\ LET r == BuildCandidates(pairs)
       IN  IF r.raised
           THEN /\ FetchExit(r)
                /\ UNCHANGED candidates
           ELSE /\ candidates' = r.value
                /\ pc' = "download"
                /\ UNCHANGED <<fetched, outcome>>
    /\ idx' = 0
    /\ df' = None
    /\ used_symbol' = None
    /\ UNCHANGED <<source, entry, settings, endpoint, body, request, start_str, end_str,
                   parsed,
                   pairs, start_dt, end_dt, interval, calls, answer, processed, chart_data,
                   renderer, rendered, files, http>>

\* one iteration of the loop of lines 177-198, the data source answering
\* ans; when the loop ends, lines 200-220 follow
Iterate(ans) ==
    /\ pc = "download"
    /\ idx < Len(candidates)
    /\ LET sym == candidates[idx + 1]
           stop == LoopEnds(ans, idx + 1, Len(candidates))
           adopted == Adopt(ans, df)
       IN  /\ calls' = Append(calls, [symbol |-> sym, start |-> start_dt,
                                      end |-> end_dt, interval |-> interval,
                                      timeout |-> settings.yfinance_timeout])
           /\ answer' = ans
           /\ idx' = idx + 1
           /\ df' = adopted
           /\ used_symbol' = IF Usable(ans) THEN Some(sym) ELSE used_symbol
           /\ IF stop
              THEN FetchExit(FinishFetch(adopted, pairs, candidates, start_dt,
                                         end_dt, interval, settings))
              ELSE UNCHANGED <<pc, fetched, outcome>>
    /\ UNCHANGED <<source, entry, settings, endpoint, body, request, start_str, end_str,
                   parsed,
                   pairs, start_dt, end_dt, interval, candidates, processed, chart_data,
                   renderer, rendered, files, http>>

\* an iteration of the loop, the data source answering with an exception,
\* None, another object, or a frame of F or the empty frame
Download(F) == \E ans \in Answers(F) : Iterate(ans)

\* an iteration of the loop, the data source answering this call as source
\* fixes it
DownloadFromSource == source # None /\ Iterate(source[idx + 1])

\* generate_chart, line 69
ProcessChartData ==
    /\ pc = "process"
    /\ LET r == process_chart_data(fetched.value, request.pairs, request.interval)
       IN  /\ processed' = r
           /\ IF r.raised
              THEN /\ outcome' = Raised(Wrap(request, r.exc))
                   /\ pc' = "exit"
                   /\ UNCHANGED chart_data
              ELSE /\ chart_data' = r.value
                   /\ pc' = "render"
                   /\ UNCHANGED outcome
    /\ UNCHANGED <<source, entry, settings, endpoint, body, request, start_str, end_str,
                   parsed,
                   pairs, start_dt, end_dt, interval, candidates, idx, calls, answer,
                   df, used_symbol, fetched, renderer, rendered, files, http>>

\* generate_chart, lines 75-112 with generate_interactive: the chart is
\* rendered, the chart library or the CSV write failing or not, and the
\* response is built
GenerateInteractiveChart ==
    /\ pc = "render"
    /\ GenerateInteractive(endpoint)
    /\ \E kind \in RenderKinds, chart_gen_time \in 0..MaxElapsed :
         LET r == InteractiveChart(kind, request.pairs, start_dt, end_dt, settings)
         IN  /\ renderer' = kind
             /\ files' = WriteFiles(files, CsvWritten(kind, fetched.value,
                                                      request.pairs, start_dt, end_dt))
             /\ IF r.raised
                THEN /\ outcome' = Raised(Wrap(request, r.exc))
                     /\ UNCHANGED rendered
                ELSE /\ rendered' = r.value
                     /\ outcome' = Returned(ChartResponse(request, fetched.value,
                                                          chart_data, r.value[1],
                                                          r.value[2], start_dt, end_dt,
                                                          chart_gen_time))
    /\ pc' = "exit"
    /\ UNCHANGED <<source, entry, settings, endpoint, body, request, start_str, end_str,
                   parsed,
                   pairs, start_dt, end_dt, interval, candidates, idx, calls, answer,
                   df, used_symbol, fetched, processed, chart_data, http>>

\* _generate_interactive_chart, lines 290-297: Chart(), chart.set(df) and
\* df.to_csv are called without a timeout, so when the chart library never
\* returns the call stays where it is and no step of the request follows
ChartNeverReturns ==
    /\ pc = "render"
    /\ GenerateInteractive(endpoint)
    /\ renderer' = "never returns"
    /\ pc' = "blocked"
    /\ UNCHANGED <<source, entry, settings, endpoint, body, request, start_str, end_str,
                   parsed,
                   pairs, start_dt, end_dt, interval, candidates, idx, calls, answer,
                   df, used_symbol, fetched, processed, chart_data, rendered, outcome,
                   files, http>>

\* another POST /charts request for the same pair and range, handled by its
\* own ChartService while this one runs, reaches line 297 with the series g it
\* fetched: the two requests share the working directory and nothing else
OtherRequestExports(F) ==
    /\ parsed # None /\ ~parsed.raised
    /\ \E g \in F :
         files' = WriteFiles(files, CsvWritten("ok", Truncate(DropDuplicates(g), settings),
                                               request.pairs, start_dt, end_dt))
    /\ UNCHANGED <<source, entry, pc, settings, endpoint, body, request, start_str, end_str,
                   parsed, pairs, start_dt, end_dt, interval, candidates, idx, calls,
                   answer, df, used_symbol, fetched, processed, chart_data, renderer,
                   rendered, outcome, http>>

\* generate_chart, lines 72-112 without generate_interactive
SkipInteractiveChart ==
    /\ pc = "render"
    /\ ~GenerateInteractive(endpoint)
    /\ outcome' = Returned(ChartResponse(request, fetched.value, chart_data, None, None,
                                         start_dt, end_dt, 0))
    /\ pc' = "exit"
    /\ UNCHANGED <<source, entry, settings, endpoint, body, request, start_str, end_str,
                   parsed,
                   pairs, start_dt, end_dt, interval, candidates, idx, calls, answer,
                   df, used_symbol, fetched, processed, chart_data, renderer, rendered,
                   files, http>>

\* generate_chart patched with a side effect: the call raises it
GenerateChartPatched ==
    /\ pc = "generate_chart"
    /\ entry = "endpoint"
    /\ \E e \in SideEffects : outcome' = Raised(e)
    /\ pc' = "exit"
    /\ UNCHANGED <<source, entry, settings, endpoint, body, request, start_str, end_str,
                   parsed,
                   pairs, start_dt, end_dt, interval, candidates, idx, calls, answer,
                   df, used_symbol, fetched, processed, chart_data, renderer, rendered,
                   files, http>>

\* create_chart / get_chart_data: the result is returned, or the exception is
\* turned into an HTTPException
EndpointRespond ==
    /\ pc = "exit"
    /\ http' = EndpointResponse(endpoint, outcome)
    /\ pc' = "done"
    /\ UNCHANGED <<source, entry, settings, endpoint, body, request, start_str, end_str,
                   parsed,
                   pairs, start_dt, end_dt, interval, candidates, idx, calls, answer,
                   df, used_symbol, fetched, processed, chart_data, renderer, rendered,
                   outcome, files>>

-----------------------------------------------------------------------------
(* Specifications *)

Next ==
    \/ ValidateRequest
    \/ GenerateChartParse
    \/ FetchEnter
    \/ Download(SampleFrames)
    \/ ProcessChartData
    \/ GenerateInteractiveChart
    \/ SkipInteractiveChart
    \/ EndpointRespond

\* a request through an endpoint
Spec == Init /\ [][Next]_vars

NextDates == CallParseDateRange

\* direct calls of _parse_date_range
SpecDates == InitDates /\ [][NextDates]_vars

NextFetch ==
    \/ FetchEnter
    \/ Download(FetchFrames)

\* direct calls of _fetch_market_data
SpecFetch == InitFetch /\ [][NextFetch]_vars

NextEndpoint ==
    \/ GenerateChartPatched
    \/ EndpointRespond

\* requests to endpoints whose service is patched to raise
SpecEndpoint == InitEndpoint /\ [][NextEndpoint]_vars

NextBlocking ==
    \/ ValidateRequest
    \/ GenerateChartParse
    \/ FetchEnter
    \/ Download(SampleFrames)
    \/ ProcessChartData
    \/ GenerateInteractiveChart
    \/ ChartNeverReturns
    \/ SkipInteractiveChart
    \/ EndpointRespond

\* the places at which the thread of a request has a step to take
Running == {"receive", "generate_chart", "fetch", "download", "process", "render", "exit"}

\* a step of the thread of a request as its program counter and its loop
\* index show it: every step of NextBlocking changes one of the two, and one
\* is possible at every place of Running
ThreadStep ==
    /\ pc \in Running
    /\ pc' \in Running \cup {"blocked", "done"}
    /\ idx' \in {idx, idx + 1}

\* a request whose collaborators may never answer: a yf.download that does not
\* answer raises when its timeout runs out (one of the answers of Download);
\* the thread of the request takes every step that it can take
SpecBlocking ==
    InitSample /\ [][NextBlocking]_vars /\ WF_<<pc, idx>>(ThreadStep)

NextConcurrent ==
    \/ ValidateRequest
    \/ GenerateChartParse
    \/ FetchEnter
    \/ Download(SampleFrames)
    \/ ProcessChartData
    \/ GenerateInteractiveChart
    \/ SkipInteractiveChart
    \/ EndpointRespond
    \/ OtherRequestExports(SampleFrames)

\* a request handled while another request for the same pair and range is
\* handled
SpecConcurrent == InitSample /\ [][NextConcurrent]_vars

NextSource ==
    \/ FetchEnter
    \/ DownloadFromSource

\* direct calls of _fetch_market_data with a data source whose answers are
\* fixed call by call
SpecSource == InitSource /\ [][NextSource]_vars

NextProcess == CallProcessChartData

\* direct calls of _process_chart_data
SpecProcess == InitProcess /\ [][NextProcess]_vars

-----------------------------------------------------------------------------
(* Properties *)

\* the spec's usable result: a non-None, non-empty tabular series
IsUsableResult(ans) == ans.kind = "DataFrame" /\ ans.frame.rows # <<>>

\* C1: within one call of _fetch_market_data the data source is called one
\* candidate at a time in list order, at most once per list entry, and never
\* again once a call has returned a usable result; the frame of that call is
\* the one adopted and stays adopted.
C1_FirstSuccessWins ==
    [][ /\ calls' # calls =>
             /\ df = None
             /\ Len(calls) < Len(candidates)
             /\ calls' = Append(calls, calls'[Len(calls')])
             /\ calls'[Len(calls')].symbol = candidates[Len(calls) + 1]
             /\ IsUsableResult(answer') =>
                    /\ df' = Some(answer'.frame)
                    /\ used_symbol' = Some(candidates[Len(calls) + 1])
             /\ ~IsUsableResult(answer') => df' = None
        /\ df # None => (calls' = calls /\ df' = df /\ used_symbol' = used_symbol)
      ]_vars

\* C1 witness: the second call returned a usable frame, which was adopted
\* with two candidates never consulted.
C1_Witness ==
    /\ pc = "done"
    /\ Len(calls) = 2
    /\ Len(candidates) = 4
    /\ df # None
    /\ IsUsableResult(answer)
    /\ df = Some(answer.frame)

\* C2: an unusable answer (an exception, None, a non-DataFrame, an empty
\* frame) to a candidate that is not the last leaves the fetch running;
\* DataNotFoundError is raised only when every candidate has been called, in
\* order, without a usable answer, and its details hold the full candidate
\* list and the requested start, end and interval.
C2_OnlyExhaustionRaises ==
    /\ (calls # <<>> /\ ~IsUsableResult(answer) /\ Len(calls) < Len(candidates))
           => (pc = "download" /\ fetched = None)
    /\ (fetched # None /\ fetched.raised /\ fetched.exc.type = "DataNotFoundError")
           => /\ Len(calls) = Len(candidates)
              /\ \A i \in 1..Len(calls) : calls[i].symbol = candidates[i]
              /\ ~IsUsableResult(answer)
              /\ df = None
              /\ fetched.exc.details.pairs = pairs
              /\ fetched.exc.details.candidates_tried = candidates
              /\ LET s == fetched.exc.details.start_date
                     e == fetched.exc.details.end_date
                 IN  /\ datetime(s.date, s.hour, s.minute) = start_dt
                     /\ datetime(e.date, e.hour, e.minute) = end_dt
              /\ fetched.exc.details.interval = interval

\* C2 witness: all four candidates were called, the last one raising, and
\* DataNotFoundError left _fetch_market_data.
C2_Witness ==
    /\ pc = "done"
    /\ Len(calls) = 4
    /\ answer.kind = "raises"
    /\ fetched.raised
    /\ fetched.exc.type = "DataNotFoundError"
    /\ Len(fetched.exc.details.candidates_tried) = 4

\* generate_chart has ended
GenerateChartEnded == pc \in {"exit", "done"} /\ outcome # None

\* the step of generate_chart that failed, if any
ValidationFailed == parsed # None /\ parsed.raised
FetchFailed == fetched # None /\ fetched.raised
NormalizationFailed ==
    GenerateChartEnded /\ fetched # None /\ ~fetched.raised /\ chart_data = None

\* C3: when the date-range validation, the fetch or the normalization fails,
\* generate_chart raises; whatever generate_chart raises is a
\* ChartGenerationError whose details are the pairs, start_date, end_date and
\* interval of the request.
C3_AlwaysRewrapped ==
    /\ (GenerateChartEnded /\ outcome.raised) =>
           /\ outcome.exc.type = "ChartGenerationError"
           /\ outcome.exc.error_code = "CHART_GENERATION_ERROR"
           /\ outcome.exc.details =
                  [pairs |-> request.pairs, start_date |-> request.start_date_time,
                   end_date |-> request.end_date_time, interval |-> request.interval]
    /\ (pc \in {"exit", "done"} /\ (ValidationFailed \/ FetchFailed \/ NormalizationFailed))
           => (outcome # None /\ outcome.raised)

\* C3 witness: the normalization found no valid row and generate_chart
\* raised ChartGenerationError.
C3_Witness ==
    /\ NormalizationFailed
    /\ outcome.raised
    /\ outcome.exc.type = "ChartGenerationError"

\* the data source gave no usable answer to any of the candidates
NoCandidateUsable ==
    /\ fetched # None /\ fetched.raised
    /\ fetched.exc.type = "DataNotFoundError"
    /\ Len(calls) = Len(candidates)

\* C4: end to end, when no candidate yields a usable answer the HTTP caller
\* gets an error of kind DataNotFound (HTTP 404, error_code DATA_NOT_FOUND)
\* whose details include all four candidate symbols.
C4_DataNotFoundSurfaced ==
    (pc = "done" /\ http # None /\ NoCandidateUsable) =>
        /\ http.status_code = 404
        /\ http.detail.error_code = "DATA_NOT_FOUND"
        /\ "candidates_tried" \in DOMAIN http.detail.details
        /\ http.detail.details.candidates_tried = candidates
        /\ Len(candidates) = 4

\* C5: a request that passed the request schema and whose time window is
\* invalid is answered HTTP 400 with error_code INVALID_DATE_RANGE, on both
\* endpoints.
C5_InvalidDateRangeSurfaced ==
    (pc = "done" /\ request # None /\ ValidationFailed) =>
        /\ http.status_code = 400
        /\ http.detail.error_code = "INVALID_DATE_RANGE"

\* the renderer was called and failed
RenderingFailed == renderer \in {"Chart raises", "to_csv raises"}

\* C6: a failure inside _generate_interactive_chart never fails
\* generate_chart: the response is still returned, with the chart_data
\* computed by the normalization and with chart_url and csv_filename None;
\* a failure of validation, fetch or normalization always fails
\* generate_chart.
C6_RenderingNonFatal ==
    /\ (GenerateChartEnded /\ RenderingFailed) =>
           /\ ~outcome.raised
           /\ outcome.value.success
           /\ outcome.value.chart_data = chart_data
           /\ outcome.value.chart_url = None
           /\ outcome.value.csv_filename = None
    /\ (GenerateChartEnded /\ ~outcome.raised) =>
           /\ outcome.value.chart_data = chart_data
           /\ ~ValidationFailed /\ ~FetchFailed /\ chart_data # None
    /\ (pc \in {"exit", "done"} /\ (ValidationFailed \/ FetchFailed \/ NormalizationFailed))
           => (outcome # None /\ outcome.raised /\ renderer = "")

\* C6 witness: the CSV write raised and generate_chart returned a response
\* without URL and file name.
C6_Witness ==
    /\ GenerateChartEnded
    /\ renderer = "to_csv raises"
    /\ ~outcome.raised
    /\ outcome.value.chart_url = None
    /\ outcome.value.chart_data.data_points > 0

\* a text matches one of the three accepted formats
MatchesAFormat(t) ==
    /\ t.layout \in Layouts
    /\ t.mm \in 0..59
    /\ IF t.layout = "date H:M" THEN t.hh \in 0..23 ELSE t.hh \in 1..12

\* the instant a matching text denotes, in minutes
InstantOf(t) ==
    t.day * 24 * 60
    + (IF t.layout = "date H:M" THEN t.hh
       ELSE (t.hh % 12) + (IF t.mer = "PM" THEN 12 ELSE 0)) * 60
    + t.mm

\* the window of two matching texts is in order and spans at most
\* max_days_lookback whole days
WindowAccepted(s, e) ==
    /\ InstantOf(s) < InstantOf(e)
    /\ InstantOf(e) - InstantOf(s) < (max_days_lookback + 1) * 24 * 60

\* C7: _parse_date_range returns exactly when both strings match an accepted
\* format, start is strictly before end and the whole days of end - start do
\* not exceed max_days_lookback; it then returns the two instants, start
\* before end. In every other case it raises InvalidDateRangeError.
C7_ParseDateRangeExact ==
    pc = "done" =>
        LET ok == /\ MatchesAFormat(start_str) /\ MatchesAFormat(end_str)
                  /\ WindowAccepted(start_str, end_str)
        IN  /\ ok <=> ~parsed.raised
            /\ ~parsed.raised =>
                   /\ parsed.value = <<InstantOf(start_str), InstantOf(end_str)>>
                   /\ parsed.value[1] < parsed.value[2]
            /\ parsed.raised => parsed.exc.type = "InvalidDateRangeError"

\* C7 witness: a window of max_days_lookback whole days and some hours, given
\* in two different formats, was accepted.
C7_Witness ==
    /\ pc = "done"
    /\ ~parsed.raised
    /\ start_str.layout = "date I:M p" /\ start_str.mer = "PM"
    /\ end_str.layout = "date H:M"
    /\ parsed.value[2] - parsed.value[1] >= max_days_lookback * 24 * 60

\* C8: every range _parse_date_range returns has start < end and an elapsed
\* time end - start of at most max_days_lookback days.
C8_ElapsedWithinLookback ==
    (pc = "done" /\ ~parsed.raised) =>
        /\ parsed.value[1] < parsed.value[2]
        /\ parsed.value[2] - parsed.value[1] <= settings.max_days_lookback * 24 * 60

\* the text of a pair before and after its "/", upper-cased, without spaces
SlashAt(p) == CHOOSE k \in 1..Len(p) : p[k] = "/"
BaseOf(p) == Upper(Remove(SubSeq(p, 1, SlashAt(p) - 1), " "))
QuoteOf(p) == Upper(Remove(SubSeq(p, SlashAt(p) + 1, Len(p)), " "))

\* C9: the candidate list of a pair with base B and quote Q is
\* [B+Q+'=X', B+Q+'=X', Q+B+'=X', Q+'=X'], whatever the range, the interval,
\* the settings and the answers of the data source.
C9_CandidateOrder ==
    candidates # None =>
        LET B == BaseOf(pairs)
            Q == QuoteOf(pairs)
        IN  candidates = <<B \o Q \o <<"=", "X">>, B \o Q \o <<"=", "X">>,
                           Q \o B \o <<"=", "X">>, Q \o <<"=", "X">>>>

\* C9 witness: the candidates of "usd /JPY" were built, the reversed form third.
C9_Witness ==
    /\ pairs = usd_jpy
    /\ candidates # None
    /\ candidates[1] = <<"U", "S", "D", "J", "P", "Y", "=", "X">>
    /\ candidates[3] = <<"J", "P", "Y", "U", "S", "D", "=", "X">>
    /\ candidates[4] = <<"J", "P", "Y", "=", "X">>
    /\ pc = "done"

\* the position of the first row of rows with timestamp t
FirstAt(rows, t) ==
    CHOOSE i \in 1..Len(rows) :
        rows[i].time = t /\ \A j \in 1..(i - 1) : rows[j].time # t

\* C10: the series _fetch_market_data returns holds each timestamp at most
\* once, each of its rows is the first row of the raw series with that
\* timestamp, and its rows are in the raw order.
C10_DedupKeepsFirst ==
    (pc = "done" /\ fetched # None /\ ~fetched.raised) =>
        LET raw == df[1].rows
            out == fetched.value.rows
        IN  /\ \A i, j \in 1..Len(out) : i # j => out[i].time # out[j].time
            /\ \A i \in 1..Len(out) :
                   /\ \E k \in 1..Len(raw) : raw[k].time = out[i].time
                   /\ out[i] = raw[FirstAt(raw, out[i].time)]
            /\ \A i, j \in 1..Len(out) :
                   i < j => FirstAt(raw, out[i].time) < FirstAt(raw, out[j].time)

\* C10 witness: the raw series held a timestamp twice with different values,
\* and the returned series holds the first of the two rows.
C10_Witness ==
    /\ pc = "done" /\ fetched # None /\ ~fetched.raised
    /\ LET raw == df[1].rows
           out == fetched.value.rows
       IN  \E i, j \in 1..Len(raw) :
               /\ i < j /\ raw[i].time = raw[j].time /\ raw[i] # raw[j]
               /\ \E k \in 1..Len(out) : out[k] = raw[i]
               /\ Len(out) >= 2

\* the positions of the raw rows that are the first of their timestamp
Keepers(raw) == {i \in 1..Len(raw) : FirstAt(raw, raw[i].time) = i}

\* the position of the m-th row of the raw series that is the first of its
\* timestamp
NthKeeper(raw, m) ==
    CHOOSE i \in Keepers(raw) : Cardinality({j \in Keepers(raw) : j <= i}) = m

Complete(row) == NaN \notin {row.Open, row.High, row.Low, row.Close}

\* the number of rows of a series with a value in each column
CompleteRows(rows) == Cardinality({i \in 1..Len(rows) : Complete(rows[i])})

\* C12: _process_chart_data returns one candle for each row that has all four
\* of Open, High, Low and Close and none for any other row, so that no candle
\* holds a NaN, for frames of scalar cells and of Series cells alike; when no
\* row has all four it raises DataNotFoundError.
C12_NoMissingInCandles ==
    (entry = "_process_chart_data" /\ pc = "done") =>
        IF CompleteRows(df[1].rows) = 0
        THEN processed.raised /\ processed.exc.type = "DataNotFoundError"
        ELSE /\ ~processed.raised
             /\ Len(processed.value.candles) = CompleteRows(df[1].rows)
             /\ \A i \in 1..Len(processed.value.candles) :
                    LET c == processed.value.candles[i]
                    IN  NaN \notin {c.open, c.high, c.low, c.close}

\* a <= b on floats: false when either is NaN
FloatLeq(a, b) == a # NaN /\ b # NaN /\ a <= b

\* the open, high, low and close values of the candles
CandleFields(candles) ==
    UNION {{candles[i].open, candles[i].high, candles[i].low, candles[i].close} :
               i \in 1..Len(candles)}

\* C13: when _process_chart_data returns, price_range.min is at most, and
\* price_range.max at least, every open, high, low and close of every candle,
\* and each of the two is the value of some field of some candle.
C13_PriceRangeIsExtrema ==
    (entry = "_process_chart_data" /\ pc = "done" /\ ~processed.raised) =>
        LET fields == CandleFields(processed.value.candles)
            range == processed.value.price_range
        IN  /\ \A x \in fields : FloatLeq(range.min, x) /\ FloatLeq(x, range.max)
            /\ range.min \in fields
            /\ range.max \in fields

\* the timestamps of a sequence of rows or candles rise strictly
Ascending(q) == \A i, j \in 1..Len(q) : i < j => q[i].time < q[j].time

\* the timestamps of a sequence of rows never fall
NonDescending(q) == \A i, j \in 1..Len(q) : i < j => q[i].time <= q[j].time

FirstCandidateComplete ==
    /\ GenerateChartEnded
    /\ Len(calls) = 1
    /\ IsUsableResult(answer)
    /\ \A i \in 1..Len(answer.frame.rows) : Complete(answer.frame.rows[i])

\* generate_chart returned a successful response of n candles
SucceededWith(n) ==
    /\ ~outcome.raised
    /\ outcome.value.success
    /\ outcome.value.chart_data.data_points = n
    /\ Len(outcome.value.chart_data.candles) = n

\* C15 as stated: when the first candidate is answered with a non-empty series
\* without missing values, generate_chart returns a successful response whose
\* data_points and number of candles are the number of rows of that series.
C15_CountEqualsRowsReturned ==
    FirstCandidateComplete => SucceededWith(Len(answer.frame.rows))

\* C15: when the first candidate is answered with a non-empty series without
\* missing values, without a repeated timestamp and of at most max_data_points
\* rows, generate_chart returns a successful response whose data_points and
\* number of candles are the number of rows of that series.
C15_CountEqualsDistinctRowsWithinMax ==
    (/\ FirstCandidateComplete
     /\ \A i, j \in 1..Len(answer.frame.rows) :
            i # j => answer.frame.rows[i].time # answer.frame.rows[j].time
     /\ Len(answer.frame.rows) <= settings.max_data_points)
        => SucceededWith(Len(answer.frame.rows))

\* C15 witness: the first candidate was answered with two complete rows of
\* different timestamps, max_data_points is two, and the response has two
\* candles.
C15_Witness ==
    /\ FirstCandidateComplete
    /\ Len(answer.frame.rows) = 2
    /\ answer.frame.rows[1].time # answer.frame.rows[2].time
    /\ settings.max_data_points = 2
    /\ SucceededWith(2)

\* the interval codes the specification allows
IntervalCodes == {"1m", "5m", "15m", "30m", "1h", "1d"}

\* C16: a posted body whose interval is not one of 1m, 5m, 15m, 30m, 1h, 1d
\* is answered 422 without generate_chart being entered or the data source
\* being called; every ChartRequest generate_chart is entered with, and every
\* call of the data source, carries one of the six codes.
C16_IntervalGate ==
    /\ (body.interval \notin IntervalCodes /\ pc # "receive") =>
           /\ pc = "done" /\ http.status_code = 422
           /\ request = None /\ parsed = None /\ outcome = None /\ calls = <<>>
    /\ request # None => request.interval \in IntervalCodes
    /\ \A i \in 1..Len(calls) : calls[i].interval \in IntervalCodes

\* C16 witness: a body that is valid but for its interval 7m was answered 422.
C16_Witness ==
    /\ body.interval = "7m"
    /\ ~ChartRequest([body EXCEPT !.interval = "5m"]).raised
    /\ pc = "done"
    /\ http.status_code = 422
    /\ calls = <<>>

\* C17: for a pair accepted by ChartRequest.validate_pairs, the quote code
\* (the fourth candidate without its "=X") and the base code (what the second
\* candidate holds before the quote code) that _fetch_market_data derives
\* are 3 characters long each, and every candidate is upper-case.
C17_ThreeLetterCodes ==
    (request # None /\ candidates # None) =>
        /\ Len(candidates[4]) - Len(EqX) = 3
        /\ Len(candidates[2]) - Len(candidates[4]) = 3
        /\ \A i \in 1..Len(candidates) : Upper(candidates[i]) = candidates[i]

\* a pair string without a '/', with more than one, or with a side that is
\* not 3 characters long
Malformed(p) ==
    \/ Cardinality({k \in 1..Len(p) : p[k] = "/"}) # 1
    \/ SlashAt(p) - 1 # 3
    \/ Len(p) - SlashAt(p) # 3

\* C18: a request whose pair string is malformed is answered with a client
\* error whose error_code is INVALID_CURRENCY_PAIR.
C18_MalformedPairIsInvalidCurrencyPair ==
    (Malformed(body.pairs) /\ pc = "done") =>
        /\ http.status_code = 400
        /\ http.detail.error_code = "INVALID_CURRENCY_PAIR"

\* C19: POST /charts answers a DataNotFoundError of the service with 404
\* DATA_NOT_FOUND, an InvalidDateRangeError with 400 INVALID_DATE_RANGE, an
\* InvalidCurrencyPairError with 400 INVALID_CURRENCY_PAIR, a
\* ChartGenerationError with 500 CHART_GENERATION_ERROR, each with the
\* message and the details of the exception, and any other exception with 500
\* INTERNAL_ERROR; every one of these bodies has error_code, message and
\* details.
C19_CreateChartErrorMapping ==
    (entry = "endpoint" /\ endpoint = "charts" /\ pc = "done" /\ outcome.raised) =>
        LET e == outcome.exc
            Carried(status, code) ==
                /\ http.status_code = status
                /\ http.detail.error_code = code
                /\ http.detail.message = e.message
                /\ http.detail.details = e.details
        IN  /\ DOMAIN http.detail = {"error_code", "message", "details"}
            /\ e.type = "DataNotFoundError" => Carried(404, "DATA_NOT_FOUND")
            /\ e.type = "InvalidDateRangeError" => Carried(400, "INVALID_DATE_RANGE")
            /\ e.type = "InvalidCurrencyPairError" => Carried(400, "INVALID_CURRENCY_PAIR")
            /\ e.type = "ChartGenerationError" => Carried(500, "CHART_GENERATION_ERROR")
            /\ e.type \notin {"DataNotFoundError", "InvalidDateRangeError",
                              "InvalidCurrencyPairError", "ChartGenerationError"} =>
                   /\ http.status_code = 500
                   /\ http.detail.error_code = "INTERNAL_ERROR"

\* C19 witness: POST /charts answered an InvalidCurrencyPairError of the
\* service with 400 and the details of the exception.
C19_Witness ==
    /\ entry = "endpoint" /\ endpoint = "charts" /\ pc = "done"
    /\ outcome.raised /\ outcome.exc.type = "InvalidCurrencyPairError"
    /\ http.status_code = 400
    /\ http.detail.error_code = "INVALID_CURRENCY_PAIR"
    /\ http.detail.details = [pairs |-> EUR_USD]

\* the three point counts of a response
PointCounts(response) ==
    <<response.chart_data.data_points,
      response.metadata.metrics.data_points_processed,
      response.metadata.settings.data_points>>

\* the series of a run had more distinct timestamps than max_data_points, so
\* that rows were dropped by the truncation
WasTruncated(raw, cfg) == Cardinality(Keepers(raw)) > cfg.max_data_points

\* what generate_chart returns or raises, for the request and the settings of
\* this run, when the data source answers the first candidate with frame g
RunWith(g) ==
    LET f == Truncate(DropDuplicates(g), settings)
        cd == process_chart_data(f, request.pairs, request.interval)
    IN  IF cd.raised THEN Raised(Wrap(request, cd.exc))
        ELSE Returned(ChartResponse(request, f, cd.value, None, None, start_dt, end_dt,
                                    0))

\* C20: the point counts of the response of a run in which the series was
\* truncated differ from the point counts of the response of every run, of the
\* same request and settings, in which no truncation happened.
C20_TruncationDetectable ==
    (GenerateChartEnded /\ ~outcome.raised /\ WasTruncated(df[1].rows, settings)) =>
        \A g \in SampleFrames :
            (~WasTruncated(g.rows, settings) /\ ~RunWith(g).raised) =>
                PointCounts(RunWith(g).value) # PointCounts(outcome.value)

\* C21: every call of the data source is made with the configured timeout,
\* and a request that entered generate_chart always reaches its end, a
\* response or an exception, whatever its collaborators do.
C21_GenerateChartAlwaysEnds ==
    /\ [](\A i \in 1..Len(calls) : calls[i].timeout = yfinance_timeout)
    /\ (pc = "generate_chart") ~> GenerateChartEnded

\* C22: what a request wrote is not overwritten by another request: whenever
\* generate_chart has returned a response that names a CSV export, the file
\* of that name holds the series of this request, whatever requests are
\* handled at the same time.
C22_ExportNotOverwritten ==
    (GenerateChartEnded /\ ~outcome.raised /\ outcome.value.csv_filename # None) =>
        \A f \in files :
            f[1] = outcome.value.csv_filename[1] => f[2] = fetched.value

\* a phase of generate_chart has run when its result, or for the renderer its
\* kind of answer, is recorded
Validated == parsed # None
Fetched == fetched # None
Normalized == processed # None
Rendered == renderer # ""

\* C23 on states: a phase has run only after the phases before it have
\* succeeded; the data source is not called when the validation of the range
\* failed; the renderer is called only by POST /charts, which asks for the
\* interactive chart; the response of the other endpoint has chart_url and
\* csv_filename None and chart_generation_time 0.
PhasesInOrder ==
    /\ Fetched => (Validated /\ ~parsed.raised)
    /\ calls # <<>> => (Validated /\ ~parsed.raised)
    /\ Normalized => (Fetched /\ ~fetched.raised)
    /\ Rendered => (Normalized /\ ~processed.raised /\ endpoint = "charts")
    /\ (GenerateChartEnded /\ ~outcome.raised /\ endpoint # "charts") =>
           /\ ~Rendered
           /\ outcome.value.chart_url = None
           /\ outcome.value.csv_filename = None
           /\ outcome.value.metadata.metrics.chart_generation_time = 0

\* C23 on steps: a phase that has run does not run again, and once
\* generate_chart has ended nothing of it runs again: the data source and the
\* renderer are not called and the outcome stays.
PhasesOnce ==
    /\ Validated => parsed' = parsed
    /\ Fetched => (fetched' = fetched /\ calls' = calls)
    /\ Normalized => processed' = processed
    /\ Rendered => renderer' = renderer
    /\ GenerateChartEnded =>
           (outcome' = outcome /\ calls' = calls /\ renderer' = renderer)

\* C23: in every run of generate_chart the phases validate, fetch, normalize
\* and render happen at most once each and in that order, each only when the
\* one before succeeded and the renderer only when generate_interactive is
\* true; a failed run is not retried.
C23_PhasesForwardOnce == []PhasesInOrder /\ [][PhasesOnce]_vars

\* C23 witness: POST /charts/data-only has answered with a response after
\* validation, fetch and normalization, without the renderer.
C23_Witness ==
    /\ pc = "done" /\ endpoint = "data-only"
    /\ Validated /\ Fetched /\ Normalized /\ ~Rendered
    /\ calls # <<>>
    /\ ~outcome.raised
    /\ outcome.value.chart_url = None
    /\ outcome.value.metadata.metrics.chart_generation_time = 0

\* the answers a candidate list without the repeated first candidate gets from
\* the data source of this run: those to the first call of the canonical
\* symbol, to the reversed symbol and to the quote symbol
CollapsedAnswers == <<source[1], source[3], source[4]>>

\* the candidate list with the repeated first candidate collapsed
Collapsed(cands) == <<cands[1], cands[3], cands[4]>>

\* the first usable answer of a sequence of answers, if there is one
HasUsable(q) == \E i \in 1..Len(q) : IsUsableResult(q[i])
FirstUsable(q) ==
    q[CHOOSE i \in 1..Len(q) :
          IsUsableResult(q[i]) /\ \A j \in 1..(i - 1) : ~IsUsableResult(q[j])]

\* the rows a fetch returns when raw is the series it adopts: the first row of
\* each timestamp, and of these the last max_data_points
ReturnedRows(raw, cfg) ==
    LET kept == Cardinality(Keepers(raw))
        n == IF kept > cfg.max_data_points THEN cfg.max_data_points ELSE kept
    IN  [k \in 1..n |-> raw[NthKeeper(raw, kept - n + k)]]

\* what a fetch over the collapsed candidate list comes to: the series it
\* returns, or the candidate list its DataNotFoundError reports
CollapsedOutcome ==
    IF HasUsable(CollapsedAnswers)
    THEN [raised |-> FALSE,
          rows |-> ReturnedRows(FirstUsable(CollapsedAnswers).frame.rows, settings)]
    ELSE [raised |-> TRUE, candidates_tried |-> Collapsed(candidates)]

\* what the fetch of this run came to, in the same terms
FetchOutcome ==
    IF fetched.raised
    THEN [raised |-> TRUE,
          candidates_tried |->
              IF fetched.exc.type = "DataNotFoundError"
              THEN fetched.exc.details.candidates_tried ELSE <<>>]
    ELSE [raised |-> FALSE, rows |-> fetched.value.rows]

C25_EndpointsAnswerAlike ==
    (entry = "http" /\ pc = "done" /\ outcome # None /\ outcome.raised) =>
        \A ep \in Endpoints :
            /\ EndpointResponse(ep, outcome).status_code = http.status_code
            /\ EndpointResponse(ep, outcome).detail.error_code = http.detail.error_code

\* C26: every series _fetch_market_data returns is non-empty, holds no
\* timestamp twice and has at most max_data_points rows; deduplication comes
\* before truncation, so it has max_data_points rows whenever the raw series
\* holds that many distinct timestamps, and one row per distinct timestamp
\* otherwise.
C26_ReturnedSeriesBounded ==
    (pc = "done" /\ fetched # None /\ ~fetched.raised) =>
        LET raw == df[1].rows
            out == fetched.value.rows
            n == settings.max_data_points
            kept == Cardinality(Keepers(raw))
        IN  /\ Len(out) >= 1
            /\ \A i, j \in 1..Len(out) : i # j => out[i].time # out[j].time
            /\ Len(out) <= n
            /\ Len(out) = IF kept > n THEN n ELSE kept

\* C26 witness: the raw series held a timestamp twice and more distinct
\* timestamps than max_data_points, and the series returned is full.
C26_Witness ==
    /\ pc = "done" /\ fetched # None /\ ~fetched.raised
    /\ Len(df[1].rows) > Cardinality(Keepers(df[1].rows))
    /\ Cardinality(Keepers(df[1].rows)) > settings.max_data_points
    /\ Len(fetched.value.rows) = settings.max_data_points

\* C27: in every successful response data_points is the number of candles and
\* is at most metrics.data_points_processed, every candle lies between
\* start_date and end_date, and start_date and end_date are the least and the
\* greatest timestamp of the fetched series, dropped rows included.
C27_CountsAndDateRange ==
    (GenerateChartEnded /\ ~outcome.raised) =>
        LET cd == outcome.value.chart_data
            rows == fetched.value.rows
        IN  /\ cd.data_points = Len(cd.candles)
            /\ cd.data_points <= outcome.value.metadata.metrics.data_points_processed
            /\ \A i \in 1..Len(cd.candles) :
                   cd.start_date <= cd.candles[i].time
                   /\ cd.candles[i].time <= cd.end_date
            /\ \E i \in 1..Len(rows) : rows[i].time = cd.start_date
            /\ \E i \in 1..Len(rows) : rows[i].time = cd.end_date
            /\ \A i \in 1..Len(rows) :
                   cd.start_date <= rows[i].time /\ rows[i].time <= cd.end_date

\* C27 witness: a successful response whose start_date is the timestamp of a
\* row that gave no candle and is earlier than every candle, so data_points is
\* less than data_points_processed.
C27_Witness ==
    /\ GenerateChartEnded /\ ~outcome.raised
    /\ LET cd == outcome.value.chart_data
       IN  /\ \A i \in 1..Len(cd.candles) : cd.start_date < cd.candles[i].time
           /\ cd.data_points < outcome.value.metadata.metrics.data_points_processed
           /\ cd.data_points >= 1

\* a non-empty series in which every row misses a value
AllRowsIncomplete(r) ==
    /\ IsUsableResult(r)
    /\ \A i \in 1..Len(r.frame.rows) : ~Complete(r.frame.rows[i])

\* C28: when the data source answers a candidate with a non-empty series in
\* which every row misses an OHLC value, the loop ends with that series
\* adopted, no later candidate is called, whatever it would have answered,
\* and generate_chart ends by raising.
C28_IncompleteSeriesAdoptedAndFails ==
    (entry = "http" /\ answer # None /\ AllRowsIncomplete(answer)) =>
        /\ pc # "download"
        /\ df = Some(answer.frame)
        /\ GenerateChartEnded => outcome.raised

=============================================================================
